---------------------------- MODULE Spec2Model ----------------------------
(***************************************************************************)
(* A model of eppy's EppClient (src/eppy/client.py): the connection        *)
(* lifecycle, the length-prefixed framing codec (read / write /            *)
(* write_many), the single exchange (send, login) and batchsend.           *)
(*                                                                         *)
(* The client is single-threaded.  A call runs from "idle" up to its first *)
(* blocking receive in one step; every underlying receive is a step of its *)
(* own, because what it returns depends on what the peer has put on the    *)
(* stream by then.  The code that follows a receive (up to the next        *)
(* receive or to the end of the call) is part of the step of that receive. *)
(*                                                                         *)
(* The peer answers every complete request frame with a frame carrying the *)
(* same bytes (a loopback at frame granularity), sends one greeting frame  *)
(* when a connection is established, and may close the stream at any       *)
(* point, also in the middle of a frame.                                   *)
(***************************************************************************)
EXTENDS Integers, Sequences, FiniteSets, TLC

\* ------------------------------------------------------------------ bounds
\* longest payload of a document
MaxLen == 2
\* most documents in one batchsend call
MaxDocs == 2
\* most API calls in one behaviour
MaxCalls == 2

\* ------------------------------------------------------------- byte values
Bytes == {1, 2}

\* str(doc): one document per length, of alternating bytes
Payload(n) == [i \in 1..n |-> IF i % 2 = 1 THEN 1 ELSE 2]

Payloads == {Payload(n) : n \in 0..MaxLen}

\* the lists of documents handed to batchsend
DocLists == UNION {[1..n -> Payloads \ {<<>>}] : n \in 1..MaxDocs}

\* response payloads starting with this byte parse to success
OkByte == 1

\* the payload of the greeting the peer sends on a new connection: a byte no
\* document holds
GreetingPayload == <<3>>

\* ---------------------------------------------------------- pure helpers
Min(a, b) == IF a < b THEN a ELSE b

Take(s, k) == SubSeq(s, 1, k)

Drop(s, k) == SubSeq(s, k + 1, Len(s))

RECURSIVE Flatten(_)
Flatten(q) == IF q = <<>> THEN <<>> ELSE Head(q) \o Flatten(Tail(q))

\* struct.pack(">I", n): 4 bytes, unsigned, big-endian
Pack(n) ==
    << (n \div 16777216) % 256, (n \div 65536) % 256, (n \div 256) % 256, n % 256 >>

\* struct.unpack(">I", b)[0] of exactly 4 bytes
Unpack(b) == b[1] * 16777216 + b[2] * 65536 + b[3] * 256 + b[4]

\* a frame whose header counts the payload alone
FrameBytesBareLen(data) == Pack(Len(data)) \o data

\* the bytes write(data) hands to the stream: siz + data
FrameBytes(data) == Pack(4 + Len(data)) \o data

\* write_many with headers that count the document alone, not themselves
RECURSIVE JoinFramesBareLen(_)
JoinFramesBareLen(docs) ==
    IF docs = <<>> THEN <<>>
    ELSE Pack(Len(Head(docs))) \o Head(docs) \o JoinFramesBareLen(Tail(docs))

\* the buffer write_many(docs) joins: header and document, per document
RECURSIVE JoinFrames(_)
JoinFrames(docs) ==
    IF docs = <<>> THEN <<>>
    ELSE Pack(4 + Len(Head(docs))) \o Head(docs) \o JoinFrames(Tail(docs))

\* EppResponse.from_xml: a response object exposing a success indicator
ParseResponse(data) ==
    [success |-> (data # <<>> /\ data[1] = OkByte), body |-> data]

\* str(EppLoginCommand) with clID / pw set: one byte standing for the credentials
LoginDoc(cred) == <<cred>>

\* the failure sentinel of batchsend
None == [success |-> FALSE, body |-> <<0>>]

\* ------------------------------------------------------------------- state
VARIABLES
    ssl_enable,         \* self.ssl_enable
    validate_hostname,  \* self.validate_hostname
    sock,               \* self.sock: 0 is None, else the id of a socket
    rawsock,            \* self._sock: 0 while the attribute is unset
    socks,              \* the sockets created so far, by id
    greeting,           \* self.greeting
    inq,                \* peer -> client: frame images not yet fully received
    rdoff,              \* bytes of Head(inq) the client has already received
    outbuf,             \* client -> peer: bytes the peer has not yet taken
    peerClosed,         \* the peer has closed the stream
    pc,                 \* where the running call stands
    fr,                 \* arguments and locals of the running call
    result,             \* how the last finished call ended
    log,                \* the I/O calls of the running (or last) call, in order
    calls               \* API calls begun so far

vars == << ssl_enable, validate_hostname, sock, rawsock, socks, greeting, inq,
           rdoff, outbuf, peerClosed, pc, fr, result, log, calls >>

stream == << inq, rdoff, outbuf, peerClosed >>

config == << ssl_enable, validate_hostname >>

\* the bytes a receive can take now
InBuf == Drop(Flatten(inq), rdoff)

\* inq and rdoff once `off` bytes of Head(q) and what follows are taken
RECURSIVE Skip(_, _)
Skip(q, off) ==
    IF q # <<>> /\ off >= Len(Head(q))
    THEN Skip(Tail(q), off - Len(Head(q)))
    ELSE << q, off >>

\* a frame image is whole when its header counts exactly its bytes
WholeFrame(c) == Len(c) >= 4 /\ Unpack(Take(c, 4)) = Len(c)

NoResponse == [success |-> FALSE, body |-> <<>>]

\* the arguments and locals of a call; hadsock: self.sock was set when it began
IdleFrame ==
    [op |-> "none", phase |-> "none", docs |-> <<>>, readresponse |-> FALSE,
     failfast |-> FALSE, pipeline |-> FALSE, raise_on_fail |-> FALSE,
     cred |-> 0, hadsock |-> FALSE, sent |-> 0, recved |-> 0, out |-> <<>>,
     siz |-> 0, head |-> <<>>]

\* how a call ended: how is "return" or "raise", ret names what was returned
NoResult ==
    [op |-> "none", how |-> "none", ret |-> "none", err |-> "", explen |-> 0,
     count |-> 0, list |-> <<>>, resp |-> NoResponse, sent |-> 0, recved |-> 0,
     docs |-> <<>>, readresponse |-> FALSE, failfast |-> FALSE, pipeline |-> FALSE,
     raise_on_fail |-> FALSE, cred |-> 0, hadsock |-> FALSE]

\* the result of the call with frame f, before its outcome is filled in
ResultOf(f) ==
    [NoResult EXCEPT !.op = f.op, !.docs = f.docs, !.readresponse = f.readresponse,
                     !.failfast = f.failfast, !.pipeline = f.pipeline,
                     !.raise_on_fail = f.raise_on_fail, !.cred = f.cred,
                     !.hadsock = f.hadsock]

\* one entry of the log.  For a write: b the bytes handed over, n those
\* delivered.  For a read: b the payload returned, n the offset into the
\* frame at the head of the stream afterwards, img the frame image that was at
\* the head of the stream when the read began (<<>> if the stream was empty
\* or stood inside a frame), eof whether the stream was then closed and
\* drained, err the exception.
Event(e, b, ok, n) ==
    [e |-> e, b |-> b, ok |-> ok, n |-> n, img |-> <<>>, eof |-> FALSE, err |-> ""]

\* __init__: no socket, no greeting
Init ==
    /\ ssl_enable \in BOOLEAN
    /\ validate_hostname \in BOOLEAN
    /\ sock = 0
    /\ rawsock = 0
    /\ socks = <<>>
    /\ greeting = NoResponse
    /\ inq = <<>>
    /\ rdoff = 0
    /\ outbuf = <<>>
    /\ peerClosed = FALSE
    /\ pc = "idle"
    /\ fr = IdleFrame
    /\ result = NoResult
    /\ log = <<>>
    /\ calls = 0

\* ------------------------------------------------------------ the sockets
\* self.sock is a connected socket that has not been closed
SockUsable == sock # 0 /\ socks[sock].st = "conn"

\* self.sock.read / self.sock.write exist only on a TLS-wrapped socket
HasMeth == sock # 0 /\ (ssl_enable => socks[sock].wrapped)

\* what connect can meet: TCP failure, TLS handshake failure, hostname mismatch
ConnectKinds ==
    {"ok", "tcpfail"}
        \cup (IF ssl_enable THEN {"tlsfail"} ELSE {})
        \cup (IF ssl_enable /\ validate_hostname THEN {"mismatch"} ELSE {})

\* the exception connect raises, "" when it returns
ConnectErr(kind) ==
    CASE kind = "ok" -> ""
      [] kind = "tcpfail" -> "socket.error"
      [] kind = "tlsfail" -> "ssl.SSLError"
      [] kind = "mismatch" -> "EppConnectionError"

\* the socket connect leaves behind
NewSock(kind) ==
    [st |-> IF kind = "tcpfail" THEN "new" ELSE "conn",
     wrapped |-> ssl_enable /\ kind \in {"ok", "mismatch"},
     certok |-> kind = "ok" /\ ssl_enable /\ validate_hostname]

\* the sockets once connect has rebound self.sock and self._sock: the socket
\* they held is no longer referenced by the client, and the runtime closes it
\* at once (reference counting, gc) or leaves it open until a later collection
Dropped(gc) ==
    IF gc /\ rawsock # 0 THEN [socks EXCEPT ![rawsock].st = "closed"] ELSE socks

\* connect(host, port): the assignments of lines 31-35 and the new stream.
\* When the TCP connect raises, self._sock still refers to the old socket.
DoConnect(kind, gc) ==
    /\ socks' = Append(IF kind = "tcpfail" THEN socks ELSE Dropped(gc), NewSock(kind))
    /\ sock' = Len(socks) + 1
    /\ rawsock' = IF kind = "tcpfail" THEN rawsock ELSE Len(socks) + 1
    /\ IF kind = "tcpfail"
       THEN UNCHANGED stream
       ELSE /\ inq' = IF kind = "tlsfail" THEN <<>> ELSE << FrameBytes(GreetingPayload) >>
            /\ rdoff' = 0
            /\ outbuf' = <<>>
            /\ peerClosed' = (kind = "tlsfail")

\* close(): self._sock.close()
CloseSocks == [socks EXCEPT ![rawsock].st = "closed"]

\* ------------------------------------------------- underlying stream calls
\* what writemeth(bytes) can do: deliver everything, or raise after a part.
\* n is the count of bytes that reached the stream.
WriteOutcomes(bytes) ==
    IF ~HasMeth THEN {[ok |-> FALSE, n |-> 0, err |-> "AttributeError"]}
    ELSE IF ~SockUsable THEN {[ok |-> FALSE, n |-> 0, err |-> "socket.error"]}
    ELSE {[ok |-> TRUE, n |-> Len(bytes), err |-> ""]}
            \cup {[ok |-> FALSE, n |-> j, err |-> "socket.error"] : j \in 0..(Len(bytes) - 1)}

\* a receive of up to n > 0 bytes: some of the bytes at hand, '' at end of
\* stream, or an exception (no data before the deadline)
RecvSome(n) ==
    IF InBuf # <<>>
    THEN {[ok |-> TRUE, data |-> Take(InBuf, k), err |-> ""] : k \in 1..Min(n, Len(InBuf))}
    ELSE IF peerClosed THEN {[ok |-> TRUE, data |-> <<>>, err |-> ""]}
    ELSE {[ok |-> FALSE, data |-> <<>>, err |-> "socket.error"]}

\* what recvmeth(n) can do.  recv(0) returns '' at once; the read(0) of a TLS
\* socket does so too or, where the library reads `len or 1024`, reads up to
\* 1024 bytes.
RecvOutcomes(n) ==
    IF ~HasMeth THEN {[ok |-> FALSE, data |-> <<>>, err |-> "AttributeError"]}
    ELSE IF ~SockUsable THEN {[ok |-> FALSE, data |-> <<>>, err |-> "socket.error"]}
    ELSE IF n = 0
         THEN {[ok |-> TRUE, data |-> <<>>, err |-> ""]}
                 \cup (IF ssl_enable THEN RecvSome(1024) ELSE {})
    ELSE RecvSome(n)

\* the client has taken k more bytes
Taken(k) ==
    /\ inq' = Skip(inq, rdoff + k)[1]
    /\ rdoff' = Skip(inq, rdoff + k)[2]
    /\ UNCHANGED peerClosed

\* --------------------------------------------------------- ends of a call
Begin == pc = "idle" /\ calls < MaxCalls /\ calls' = calls + 1

Finish(res, lg) ==
    /\ pc' = "idle"
    /\ fr' = IdleFrame
    /\ log' = lg
    /\ result' = res

Raise(f, err, explen, lg) ==
    Finish([ResultOf(f) EXCEPT !.how = "raise", !.err = err, !.explen = explen,
                               !.sent = f.sent, !.recved = f.recved], lg)

\* an exception that carries the response (EppLoginError(r))
RaiseWith(f, err, resp, lg) ==
    Finish([ResultOf(f) EXCEPT !.how = "raise", !.err = err, !.resp = resp], lg)

ReturnNone(f, lg) ==
    Finish([ResultOf(f) EXCEPT !.how = "return"], lg)

ReturnResp(f, resp, lg) ==
    Finish([ResultOf(f) EXCEPT !.how = "return", !.ret = "resp", !.resp = resp], lg)

ReturnCount(f, lg) ==
    Finish([ResultOf(f) EXCEPT !.how = "return", !.ret = "count", !.count = f.sent,
                               !.sent = f.sent], lg)

ReturnList(f, out, lg) ==
    Finish([ResultOf(f) EXCEPT !.how = "return", !.ret = "list", !.list = out,
                               !.sent = f.sent, !.recved = f.recved], lg)

\* the call goes on to a read
GoRead(f, lg) ==
    /\ pc' = "rd_hdr"
    /\ fr' = f
    /\ log' = lg
    /\ result' = NoResult

\* ------------------------------------------------------------------ write
\* write(data): one writemeth call with siz + data
Write(data, w) ==
    outbuf' = outbuf \o Take(FrameBytes(data), w.n)

WriteEvent(data, w) ==
    [Event("write", FrameBytes(data), w.ok, w.n) EXCEPT !.err = w.err]

\* ------------------------------------------------------------------- send
\* send that goes on to its read although its write raised
SendStartReadsAnyway(f, doc, w, lg) ==
    IF ~SockUsable
    THEN /\ Raise(f, IF sock = 0 THEN "AttributeError" ELSE "socket.error", 0, lg)
         /\ UNCHANGED outbuf
    ELSE /\ Write(doc, w)
         /\ GoRead([f EXCEPT !.phase = "exchange"], Append(lg, WriteEvent(doc, w)))

\* send(doc) up to its read: remote_info() for the log line, then write(buf).
\* f is the frame of the call.
SendStart(f, doc, w, lg) ==
    IF ~SockUsable
    THEN /\ Raise(f, IF sock = 0 THEN "AttributeError" ELSE "socket.error", 0, lg)
         /\ UNCHANGED outbuf
    ELSE /\ Write(doc, w)
         /\ IF w.ok
            THEN GoRead([f EXCEPT !.phase = "exchange"], Append(lg, WriteEvent(doc, w)))
            ELSE Raise(f, w.err, 0, Append(lg, WriteEvent(doc, w)))

\* the write send makes once remote_info() has answered: none otherwise
SendWrites(doc) ==
    IF SockUsable THEN WriteOutcomes(FrameBytes(doc))
    ELSE {[ok |-> FALSE, n |-> 0, err |-> ""]}

\* a failing response raised whatever raise_on_fail says
LoginFailsAlways(resp, raise_on_fail) == ~resp.success

\* login, lines 60-61: raise EppLoginError(r)
LoginFails(resp, raise_on_fail) == ~resp.success /\ raise_on_fail

\* send(doc) from its read on: parse, normalize_response, return; and the
\* check login makes of what send returned
SendFinish(data, lg) ==
    LET resp == ParseResponse(data)
        lg2 == lg \o << Event("parse", data, TRUE, 0), Event("hook", data, TRUE, 0) >>
    IN  IF fr.op = "login" /\ LoginFails(resp, fr.raise_on_fail)
        THEN RaiseWith(fr, "EppLoginError", resp, lg2)
        ELSE ReturnResp(fr, resp, lg2)

\* -------------------------------------------------------------- batchsend
\* padding that stops one slot short
PadOneShort(out, sent) == out \o [i \in 1..(sent - Len(out) - 1) |-> None]

\* lines 152-153: the list padded with None up to one slot per document sent
Pad(out, sent) == out \o [i \in 1..(sent - Len(out)) |-> None]

\* phase 1 of batchsend.  K is the document whose write raises (Len(docs)+1:
\* none does), w the outcome of that write, or of the one write_many call.
BatchWrites(docs, pipeline) ==
    IF pipeline
    THEN {[K |-> 1, w |-> w] : w \in WriteOutcomes(JoinFrames(docs))}
    ELSE {[K |-> Len(docs) + 1, w |-> w] :
              w \in {x \in WriteOutcomes(<<>>) : x.ok}}
         \cup UNION {{[K |-> k, w |-> w] :
                          w \in {x \in WriteOutcomes(FrameBytes(docs[k])) : ~x.ok}} :
                     k \in (IF SockUsable /\ HasMeth THEN 1..Len(docs) ELSE {1})}

\* a write of phase 1 raised
WriteFailed(docs, pipeline, o) ==
    IF pipeline THEN ~o.w.ok ELSE o.K <= Len(docs)

\* sent counted before the write instead of after it
SentCountedEarly(docs, pipeline, o) ==
    IF pipeline THEN (IF o.w.ok THEN Len(docs) ELSE 0) ELSE Min(o.K, Len(docs))

\* lines 128-134: sent when phase 1 is over
SentAfter(docs, pipeline, o) ==
    IF pipeline THEN (IF o.w.ok THEN Len(docs) ELSE 0) ELSE o.K - 1

\* the bytes phase 1 put on the stream: write_many's one buffer, or write
\* after write up to the one that raised
BatchBytes(docs, pipeline, o) ==
    IF pipeline THEN Take(JoinFrames(docs), o.w.n)
    ELSE JoinFrames(Take(docs, o.K - 1))
            \o (IF o.K <= Len(docs) THEN Take(FrameBytes(docs[o.K]), o.w.n) ELSE <<>>)

\* the underlying write calls of phase 1
BatchLog(docs, pipeline, o) ==
    IF pipeline
    THEN << [Event("write", JoinFrames(docs), o.w.ok, o.w.n) EXCEPT !.err = o.w.err] >>
    ELSE [i \in 1..Min(o.K, Len(docs)) |->
            IF i < o.K THEN Event("write", FrameBytes(docs[i]), TRUE, Len(FrameBytes(docs[i])))
            ELSE [Event("write", FrameBytes(docs[i]), FALSE, o.w.n) EXCEPT !.err = o.w.err]]

\* the failure of phase 1 swallowed whatever failfast says
ReraiseNever(failed, failfast) == FALSE

\* lines 137-138: the failure of phase 1 is raised again
Reraise(failed, failfast) == failed /\ failfast

\* the early return of line 141 left out
SkipReadsNever(readresponse) == FALSE

\* lines 140-141: no response is waited for
SkipReads(readresponse) == ~readresponse

\* batchsend(docs, readresponse, failfast, pipeline) up to its first read
BatchSend ==
    /\ Begin
    /\ \E docs \in DocLists, readresponse \in BOOLEAN, failfast \in BOOLEAN,
          pipeline \in BOOLEAN :
         \E o \in BatchWrites(docs, pipeline) :
           LET f == [IdleFrame EXCEPT !.op = "batchsend", !.phase = "receive",
                                      !.docs = docs, !.readresponse = readresponse,
                                      !.failfast = failfast, !.pipeline = pipeline,
                                      !.hadsock = (sock # 0),
                                      !.sent = SentAfter(docs, pipeline, o)]
               lg == BatchLog(docs, pipeline, o)
           IN  /\ outbuf' = outbuf \o BatchBytes(docs, pipeline, o)
               /\ IF Reraise(WriteFailed(docs, pipeline, o), failfast)
                  THEN Raise(f, o.w.err, 0, lg)
                  ELSE IF SkipReads(readresponse)
                  THEN ReturnCount(f, lg)
                  ELSE IF f.sent = 0
                  THEN ReturnList(f, <<>>, lg)
                  ELSE GoRead(f, lg)
    /\ UNCHANGED << config, sock, rawsock, socks, greeting, inq, rdoff, peerClosed >>

\* ------------------------------------------------------------------- read
\* no write follows this read
NoWrite == [ok |-> FALSE, n |-> 0, err |-> ""]

\* the write that follows a read that returns: the login frame, after the greeting
NextWrites ==
    IF fr.op = "login" /\ fr.phase = "greeting"
    THEN WriteOutcomes(FrameBytes(LoginDoc(fr.cred)))
    ELSE {NoWrite}

\* the caller's code after self.read() has returned data (ok) or raised err
AfterRead(ok, data, err, explen, lg, w) ==
    CASE fr.op = "login" /\ fr.phase = "greeting" ->
            IF ok
            THEN /\ greeting' = ParseResponse(data)
                 /\ SendStart(fr, LoginDoc(fr.cred), w, Append(lg, Event("parse", data, TRUE, 0)))
            ELSE /\ Raise(fr, err, explen, lg)
                 /\ UNCHANGED << greeting, outbuf >>
      [] fr.op \in {"login", "send"} /\ fr.phase = "exchange" ->
            /\ IF ok THEN SendFinish(data, lg) ELSE Raise(fr, err, explen, lg)
            /\ UNCHANGED << greeting, outbuf >>
      [] fr.op = "batchsend" ->
            /\ IF ok
               THEN LET f == [fr EXCEPT !.out = Append(fr.out, ParseResponse(data)),
                                        !.recved = fr.recved + 1]
                        lg2 == Append(lg, Event("parse", data, TRUE, 0))
                    IN  IF f.recved = f.sent
                        THEN ReturnList(f, f.out, lg2)
                        ELSE GoRead(f, lg2)
               ELSE ReturnList(fr, Pad(fr.out, fr.sent), lg)
            /\ UNCHANGED << greeting, outbuf >>

\* the frame image at the head of the stream, if the stream stands at its start
HeadImage == IF rdoff = 0 /\ inq # <<>> THEN Head(inq) ELSE <<>>

\* the log of a read() that raised, after close() when it closed the connection
ReadFailed(closed, img, eof, err, n) ==
    (IF closed THEN << Event("close", <<>>, TRUE, 0) >> ELSE <<>>)
        \o << [Event("read", <<>>, FALSE, n) EXCEPT !.img = img, !.eof = eof, !.err = err] >>

\* the log entry of a read() that returned data; off: the stream offset after it
ReadOk(data, img, off) ==
    [Event("read", data, TRUE, off) EXCEPT !.img = img]

\* read(), lines 71-77: the receive of the size header
RecvHeader ==
    /\ pc = "rd_hdr"
    /\ LET img == HeadImage
           eof == (InBuf = <<>> /\ peerClosed)
       IN \E r \in RecvOutcomes(4) :
         IF ~r.ok
         THEN /\ AfterRead(FALSE, <<>>, r.err, 0,
                           log \o ReadFailed(FALSE, img, eof, r.err, 0), NoWrite)
              /\ UNCHANGED << socks, inq, rdoff, peerClosed >>
         ELSE IF r.data = <<>>
         THEN /\ socks' = CloseSocks
              /\ AfterRead(FALSE, <<>>, "IOError: No size header read", 0,
                           log \o ReadFailed(TRUE, img, eof, "IOError: No size header read", 0),
                           NoWrite)
              /\ UNCHANGED << inq, rdoff, peerClosed >>
         ELSE /\ Taken(Len(r.data))
              /\ UNCHANGED socks
              /\ IF Len(r.data) < 4
                 THEN AfterRead(FALSE, <<>>, "struct.error", 0,
                                log \o ReadFailed(FALSE, img, eof, "struct.error", 0), NoWrite)
                 ELSE IF Unpack(r.data) - 4 < 0
                 THEN AfterRead(FALSE, <<>>, "ValueError", 0,
                                log \o ReadFailed(FALSE, img, eof, "ValueError", 0), NoWrite)
                 ELSE /\ pc' = "rd_data"
                      /\ fr' = [fr EXCEPT !.siz = Unpack(r.data) - 4, !.head = img]
                      /\ UNCHANGED << greeting, outbuf, log, result >>
    /\ UNCHANGED << config, sock, rawsock, calls >>

\* read(), lines 79-84: the receive of the payload
RecvData ==
    /\ pc = "rd_data"
    /\ \E r \in RecvOutcomes(fr.siz) :
         IF ~r.ok
         THEN /\ AfterRead(FALSE, <<>>, r.err, 0,
                           log \o ReadFailed(FALSE, fr.head, FALSE, r.err, 0), NoWrite)
              /\ UNCHANGED << socks, inq, rdoff, peerClosed >>
         ELSE IF r.data = <<>>
         THEN /\ socks' = CloseSocks
              /\ AfterRead(FALSE, <<>>, "IOError: No data read", fr.siz,
                           log \o ReadFailed(TRUE, fr.head, FALSE, "IOError: No data read", fr.siz),
                           NoWrite)
              /\ UNCHANGED << inq, rdoff, peerClosed >>
         ELSE /\ Taken(Len(r.data))
              /\ UNCHANGED socks
              /\ \E w \in NextWrites :
                   AfterRead(TRUE, r.data, "", 0,
                             Append(log, ReadOk(r.data, fr.head, Skip(inq, rdoff + Len(r.data))[2])),
                             w)
    /\ UNCHANGED << config, sock, rawsock, calls >>

\* ------------------------------------------------------------- the calls
\* connect(host, port) called by the user
Connect ==
    /\ Begin
    /\ \E kind \in ConnectKinds, gc \in BOOLEAN :
         LET f == [IdleFrame EXCEPT !.op = "connect", !.hadsock = (sock # 0)]
         IN  /\ DoConnect(kind, gc)
             /\ IF kind = "ok"
                THEN ReturnNone(f, << Event("connect", <<>>, TRUE, 0) >>)
                ELSE Raise(f, ConnectErr(kind), 0, << Event("connect", <<>>, FALSE, 0) >>)
    /\ UNCHANGED << config, greeting >>

\* close()
Close ==
    /\ Begin
    /\ LET f == [IdleFrame EXCEPT !.op = "close", !.hadsock = (sock # 0)]
       IN  IF rawsock = 0
           THEN /\ Raise(f, "AttributeError", 0, <<>>)
                /\ UNCHANGED socks
           ELSE /\ socks' = CloseSocks
                /\ ReturnNone(f, << Event("close", <<>>, TRUE, 0) >>)
    /\ UNCHANGED << config, sock, rawsock, greeting, stream >>

\* send(doc)
Send ==
    /\ Begin
    /\ \E doc \in Payloads :
         \E w \in SendWrites(doc) :
           SendStart([IdleFrame EXCEPT !.op = "send", !.docs = << doc >>,
                                       !.hadsock = (sock # 0)], doc, w, <<>>)
    /\ UNCHANGED << config, sock, rawsock, socks, greeting, inq, rdoff, peerClosed >>

\* login that connects whether or not it has a socket
NeedsConnectAlways == TRUE

\* login, line 52: if not self.sock
NeedsConnect == sock = 0

\* login(clID, pw, raise_on_fail)
Login ==
    /\ Begin
    /\ \E cred \in Bytes, raise_on_fail \in BOOLEAN :
         LET f == [IdleFrame EXCEPT !.op = "login", !.cred = cred,
                                    !.raise_on_fail = raise_on_fail,
                                    !.hadsock = (sock # 0)]
         IN  IF NeedsConnect
             THEN /\ \E kind \in ConnectKinds, gc \in BOOLEAN :
                       /\ DoConnect(kind, gc)
                       /\ IF kind = "ok"
                          THEN GoRead([f EXCEPT !.phase = "greeting"],
                                      << Event("connect", <<>>, TRUE, 0) >>)
                          ELSE Raise(f, ConnectErr(kind), 0,
                                     << Event("connect", <<>>, FALSE, 0) >>)
                  /\ UNCHANGED greeting
             ELSE /\ \E w \in SendWrites(LoginDoc(cred)) :
                       SendStart(f, LoginDoc(cred), w, <<>>)
                  /\ UNCHANGED << sock, rawsock, socks, greeting, inq, rdoff, peerClosed >>
    /\ UNCHANGED config

\* ---------------------------------------------------------------- the peer
\* the client still has a step to take within the bound on calls
Watched == pc # "idle" \/ calls < MaxCalls

\* the peer takes one whole request frame and answers it with the same bytes
PeerAnswer ==
    /\ Watched
    /\ ~peerClosed
    /\ Len(outbuf) >= 4
    /\ Unpack(Take(outbuf, 4)) >= 4
    /\ Len(outbuf) >= Unpack(Take(outbuf, 4))
    /\ inq' = Append(inq, Take(outbuf, Unpack(Take(outbuf, 4))))
    /\ outbuf' = Drop(outbuf, Unpack(Take(outbuf, 4)))
    /\ UNCHANGED << config, sock, rawsock, socks, greeting, rdoff, peerClosed,
                    pc, fr, result, log, calls >>

\* the bytes of outbuf the peer may still send back before it closes: less
\* than one whole frame
PartialMax ==
    IF Len(outbuf) >= 4 /\ Unpack(Take(outbuf, 4)) >= 4
    THEN Min(Len(outbuf), Unpack(Take(outbuf, 4)) - 1)
    ELSE Len(outbuf)

\* the peer closes the stream, possibly in the middle of a frame
PeerClose ==
    /\ Watched
    /\ ~peerClosed
    /\ rawsock # 0
    /\ \E j \in 0..PartialMax :
         /\ inq' = IF j = 0 THEN inq ELSE Append(inq, Take(outbuf, j))
         /\ outbuf' = Drop(outbuf, j)
    /\ peerClosed' = TRUE
    /\ UNCHANGED << config, sock, rawsock, socks, greeting, rdoff,
                    pc, fr, result, log, calls >>

Next ==
    \/ Connect
    \/ Close
    \/ Send
    \/ Login
    \/ BatchSend
    \/ RecvHeader
    \/ RecvData
    \/ PeerAnswer
    \/ PeerClose

Spec == Init /\ [][Next]_vars

\* the client once login() on a new client has returned: connected, the
\* greeting read, the response of the login frame read, nothing on the stream
InitLive ==
    /\ ssl_enable \in BOOLEAN
    /\ validate_hostname \in BOOLEAN
    /\ sock = 1
    /\ rawsock = 1
    /\ socks = << NewSock("ok") >>
    /\ greeting = ParseResponse(GreetingPayload)
    /\ inq = <<>>
    /\ rdoff = 0
    /\ outbuf = <<>>
    /\ peerClosed = FALSE
    /\ pc = "idle"
    /\ fr = IdleFrame
    /\ result = NoResult
    /\ log = <<>>
    /\ calls = 0

\* send and batchsend calls on that one connection, with a peer that answers
\* every request frame and never closes
NextLive ==
    \/ Send
    \/ BatchSend
    \/ RecvHeader
    \/ RecvData
    \/ PeerAnswer

SpecLive == InitLive /\ [][NextLive]_vars

\* ================================================================ claims
\* the entries of the log of one kind, in order
RECURSIVE Only(_, _)
Only(lg, e) ==
    IF lg = <<>> THEN <<>>
    ELSE IF Head(lg).e = e THEN << Head(lg) >> \o Only(Tail(lg), e)
    ELSE Only(Tail(lg), e)

ReadsOf(lg) == Only(lg, "read")

WritesOf(lg) == Only(lg, "write")

\* the payload a frame image carries
PayloadOf(img) == Drop(img, 4)

\* the image holds its whole header but not its whole payload
CutAfterHeader(img) == Len(img) >= 4 /\ Len(img) < Unpack(Take(img, 4))

\* C1: round-trip law.  When write(p) has put FrameBytes(p) on the stream and
\* a later read() of the call begins at that frame image, the read returns
\* exactly p, for p of any length, the empty payload included.
C1_RoundTrip ==
    \A i, j \in DOMAIN log :
        (/\ j < i
         /\ log[j].e = "write" /\ log[j].ok
         /\ log[i].e = "read" /\ log[i].img = log[j].b)
            => (log[i].ok /\ log[i].b = PayloadOf(log[i].img))

\* C1, the empty payload alone: a read() that begins at the image of an empty
\* frame (header value 4) returns the empty payload.
C1_EmptyPayload ==
    \A i \in DOMAIN log :
        (log[i].e = "read" /\ log[i].img = FrameBytes(<<>>))
            => (log[i].ok /\ log[i].b = <<>>)

\* C2: exact-length reads.  A read() that begins at a whole frame image with
\* a payload does not fail, returns as many bytes as the header announces and
\* leaves the stream at the next frame boundary, however the underlying
\* receives split the bytes.
C2_ExactLength ==
    \A i \in DOMAIN log :
        (log[i].e = "read" /\ WholeFrame(log[i].img) /\ Len(log[i].img) > 4)
            => /\ log[i].ok
               /\ Len(log[i].b) = Unpack(Take(log[i].img, 4)) - 4
               /\ log[i].n = 0

\* C3: a read() on a stream closed before any header byte raises "no size
\* header"; on a stream closed after the header and before the whole payload
\* it raises "no data" with the expected payload length; close() has been
\* called before either reaches the caller.
C3_ClosedStream ==
    \A i \in DOMAIN log :
        log[i].e = "read" =>
            /\ (log[i].eof /\ log[i].img = <<>>) =>
                   /\ log[i].err = "IOError: No size header read"
                   /\ i > 1 /\ log[i - 1].e = "close"
            /\ CutAfterHeader(log[i].img) =>
                   /\ log[i].err = "IOError: No data read"
                   /\ log[i].n = Unpack(Take(log[i].img, 4)) - 4
                   /\ i > 1 /\ log[i - 1].e = "close"

\* the errors of the underlying stream and of read()
IOErrors == {"socket.error", "IOError: No size header read", "IOError: No data read"}

\* C4: no call of send, login or batchsend has ended with an I/O error of a
\* read or a write while the stream is still open and usable.
C4_ErrorCloses ==
    (/\ pc = "idle"
     /\ result.op \in {"send", "login", "batchsend"}
     /\ result.how = "raise"
     /\ result.err \in IOErrors
     /\ \E i \in DOMAIN log : log[i].e \in {"read", "write"} /\ ~log[i].ok)
        => ~SockUsable

\* ------------------------------------------------------ batchsend claims
\* the running call, or the last one
Cur == IF pc = "idle" THEN result ELSE fr

\* the frames a buffer holds, counted by their headers
RECURSIVE NFrames(_)
NFrames(b) ==
    IF Len(b) < 4 \/ Unpack(Take(b, 4)) < 4 \/ Unpack(Take(b, 4)) > Len(b) THEN 0
    ELSE 1 + NFrames(Drop(b, Unpack(Take(b, 4))))

\* the frames handed over by the write calls that returned
RECURSIVE FramesWritten(_)
FramesWritten(lg) ==
    IF lg = <<>> THEN 0
    ELSE (IF Head(lg).e = "write" /\ Head(lg).ok THEN NFrames(Head(lg).b) ELSE 0)
            + FramesWritten(Tail(lg))

\* the reads of the log that returned
OkReads(lg) == SelectSeq(ReadsOf(lg), LAMBDA ev : ev.ok)

\* the first write of the log that raised, 0 if none did
FirstFailedWrite(lg) ==
    IF \E k \in DOMAIN lg : lg[k].e = "write" /\ ~lg[k].ok
    THEN CHOOSE k \in DOMAIN lg :
            /\ lg[k].e = "write" /\ ~lg[k].ok
            /\ \A m \in 1..(k - 1) : ~(lg[m].e = "write" /\ ~lg[m].ok)
    ELSE 0

\* C5: batchsend with failfast false and readresponse true never raises; it
\* returns a list with one slot per frame sent, whose first R slots are the
\* parsed payloads of the R reads that returned, in the order read, and whose
\* other slots are None; only the last read of the call can have failed (no
\* read follows a failed one).
C5_PadToSent ==
    (pc = "idle" /\ result.op = "batchsend" /\ result.readresponse /\ ~result.failfast)
        => LET rd == ReadsOf(log)
               R == Len(OkReads(log))
               sent == FramesWritten(log)
           IN  /\ result.how = "return"
               /\ result.ret = "list"
               /\ Len(result.list) = sent
               /\ \A i \in 1..Len(rd) : i < Len(rd) => rd[i].ok
               /\ R < sent => Len(rd) = R + 1
               /\ \A i \in 1..sent :
                    result.list[i] = IF i <= R THEN ParseResponse(rd[i].b) ELSE None

\* C5 witness: two frames sent, the first read returned, the second failed
C5_Witness ==
    /\ pc = "idle" /\ result.op = "batchsend" /\ result.readresponse /\ ~result.failfast
    /\ result.how = "return"
    /\ Len(result.list) = 2
    /\ result.list[1] # None
    /\ result.list[2] = None
    /\ Len(ReadsOf(log)) = 2

\* C6: batchsend without pipeline and with failfast false, when the write of
\* document K raises: the K-1 earlier documents were written, no later one
\* is, sent is K-1, and the call does not raise but goes on to read at most
\* K-1 frames, or returns K-1 when readresponse is false.
C6_PartialSent ==
    (/\ Cur.op = "batchsend" /\ ~Cur.pipeline /\ ~Cur.failfast
     /\ FirstFailedWrite(log) # 0)
        => LET K == FirstFailedWrite(log)
               W == WritesOf(log)
           IN  /\ Len(W) = K
               /\ \A i \in 1..K : log[i] = W[i] /\ W[i].b = FrameBytes(Cur.docs[i])
               /\ \A i \in 1..(K - 1) : W[i].ok /\ W[i].n = Len(W[i].b)
               /\ Cur.sent = K - 1
               /\ Len(ReadsOf(log)) <= K - 1
               /\ pc # "idle" => Cur.readresponse
               /\ pc = "idle" =>
                    /\ result.how = "return"
                    /\ result.readresponse =>
                         result.ret = "list" /\ Len(result.list) = K - 1
                    /\ ~result.readresponse =>
                         result.ret = "count" /\ result.count = K - 1

\* C6 witness: the write of the second of two documents raised and the call
\* stands in its receive phase with sent = 1
C6_Witness ==
    /\ pc = "rd_hdr" /\ fr.op = "batchsend" /\ ~fr.pipeline /\ ~fr.failfast
    /\ Len(fr.docs) = 2
    /\ FirstFailedWrite(log) = 2
    /\ fr.sent = 1

\* C7: batchsend with failfast true, when a write raises (the write of document
\* K, or the one write of a pipelined call): the call raises that error at
\* once, the failed write is its last I/O call (no later write, no read), and
\* sent is K-1 (0 when pipelined).
C7_FailFast ==
    (Cur.op = "batchsend" /\ Cur.failfast /\ FirstFailedWrite(log) # 0)
        => LET K == FirstFailedWrite(log)
           IN  /\ pc = "idle"
               /\ result.how = "raise"
               /\ result.err = "socket.error" \/ result.err = "AttributeError"
               /\ Len(log) = K
               /\ ReadsOf(log) = <<>>
               /\ \A i \in 1..(K - 1) : log[i].e = "write" /\ log[i].ok
               /\ result.sent = IF result.pipeline THEN 0 ELSE K - 1

\* C7 witness: [A, B] not pipelined, the write of B raised, sent = 1
C7_Witness ==
    /\ pc = "idle" /\ result.op = "batchsend" /\ result.failfast /\ ~result.pipeline
    /\ result.how = "raise"
    /\ Len(result.docs) = 2
    /\ FirstFailedWrite(log) = 2
    /\ result.sent = 1

\* C8: batchsend with readresponse false makes no read and, unless it raises,
\* returns the count of frames handed over by the write calls that returned.
C8_CountOnly ==
    (Cur.op = "batchsend" /\ ~Cur.readresponse)
        => /\ pc = "idle"
           /\ ReadsOf(log) = <<>>
           /\ result.how = "return" =>
                result.ret = "count" /\ result.count = FramesWritten(log)

\* C8 witness: two documents written one by one, the count 2 returned
C8_Witness ==
    /\ pc = "idle" /\ result.op = "batchsend" /\ ~result.readresponse
    /\ result.how = "return"
    /\ result.count = 2
    /\ Len(WritesOf(log)) = 2

\* the frames of the documents, header after header, as the wire format has them
WireFrames(docs) ==
    Flatten([i \in 1..Len(docs) |-> Pack(4 + Len(docs[i])) \o docs[i]])

C10_GreetingOnce ==
    Cur.op = "login"
        => LET C == Only(log, "connect")
               R == ReadsOf(log)
               W == WritesOf(log)
           IN  /\ Len(W) <= 1
               /\ W # <<>> => W[1].b = FrameBytes(LoginDoc(Cur.cred))
               /\ Cur.hadsock =>
                    /\ C = <<>>
                    /\ Len(R) <= 1
                    /\ R # <<>> => (W # <<>> /\ W[1].ok /\ log[1] = W[1])
               /\ ~Cur.hadsock =>
                    /\ Len(C) = 1 /\ log[1] = C[1]
                    /\ Len(R) <= 2
                    /\ W # <<>> =>
                         /\ C[1].ok
                         /\ log[2].e = "read" /\ log[2].ok
                         /\ log[3].e = "parse"
                         /\ log[4] = W[1]
                         /\ greeting = ParseResponse(log[2].b)
                    /\ Len(R) = 2 => (W # <<>> /\ W[1].ok)

\* C10 witness: a login that connected, read the greeting, wrote the login
\* frame and got its response
C10_Witness ==
    /\ pc = "idle" /\ result.op = "login" /\ ~result.hadsock
    /\ result.how = "return"
    /\ Len(ReadsOf(log)) = 2
    /\ Len(WritesOf(log)) = 1

\* C10, the other case reached: a login on a connected client that returned
C10_WitnessLive ==
    /\ pc = "idle" /\ result.op = "login" /\ result.hadsock
    /\ result.how = "return"
    /\ Only(log, "connect") = <<>>
    /\ Len(ReadsOf(log)) = 1

\* the login call has ended and its exchange met no I/O error: the response
\* was read, parsed and handed to the hook
LoginCompleted ==
    /\ pc = "idle" /\ result.op = "login"
    /\ log # <<>> /\ log[Len(log)].e = "hook"

\* the parsed response of the exchange of the call: that of its last read
LastResponse == ParseResponse(ReadsOf(log)[Len(ReadsOf(log))].b)

\* C11: when the login exchange completes without an I/O error, login raises
\* EppLoginError carrying the parsed response if and only if that response's
\* success indicator is false and raise_on_fail is true; in every other case
\* it returns the parsed response, a failing one included.
C11_LoginError ==
    LoginCompleted
        => /\ result.resp = LastResponse
           /\ (result.how = "raise" /\ result.err = "EppLoginError")
                 <=> (~LastResponse.success /\ result.raise_on_fail)
           /\ ~(~LastResponse.success /\ result.raise_on_fail)
                 => (result.how = "return" /\ result.ret = "resp")

\* C11 witness: a failing response raised as EppLoginError
C11_Witness ==
    /\ LoginCompleted
    /\ ~LastResponse.success /\ result.raise_on_fail
    /\ result.how = "raise" /\ result.err = "EppLoginError"

\* C11, the other case reached: a failing response returned because
\* raise_on_fail is false
C11_WitnessReturned ==
    /\ LoginCompleted
    /\ ~LastResponse.success /\ ~result.raise_on_fail
    /\ result.how = "return" /\ result.resp = LastResponse

\* ----------------------------------------------------------- send claims
\* C12: send(doc) makes, in this order, one write of the frame of doc, one
\* read, one parse and one call of the hook, and returns the parsed payload of
\* that read; no read follows a write that raised, no parse and no hook
\* follow a write or a read that raised, the call then ends raising that very
\* error, and there is never a second write or read.
C12_SendOrder ==
    Cur.op = "send"
        => LET W == WritesOf(log)
               R == ReadsOf(log)
               io == SelectSeq(log, LAMBDA ev : ev.e # "close")
           IN  /\ Len(W) <= 1 /\ Len(R) <= 1
               /\ Len(Only(log, "parse")) <= 1 /\ Len(Only(log, "hook")) <= 1
               /\ W # <<>> => (log[1] = W[1] /\ W[1].b = FrameBytes(Cur.docs[1]))
               /\ R # <<>> => (W # <<>> /\ W[1].ok /\ io[2] = R[1])
               /\ (W # <<>> /\ ~W[1].ok) =>
                     /\ Len(log) = 1
                     /\ pc = "idle" /\ result.how = "raise" /\ result.err = W[1].err
               /\ (R # <<>> /\ ~R[1].ok) =>
                     /\ Len(io) = 2
                     /\ pc = "idle" /\ result.how = "raise" /\ result.err = R[1].err
               /\ Only(log, "hook") # <<>> =>
                     /\ Len(log) = 4
                     /\ R # <<>> /\ R[1].ok
                     /\ log[3].e = "parse" /\ log[3].b = R[1].b
                     /\ log[4].e = "hook" /\ log[4].b = R[1].b
               /\ (pc = "idle" /\ result.how = "return") =>
                     /\ Len(log) = 4 /\ log[4].e = "hook"
                     /\ result.ret = "resp"
                     /\ result.resp = ParseResponse(R[1].b)
               /\ (pc = "idle" /\ result.how = "raise") => Only(log, "hook") = <<>>

\* C12 witness: a send that wrote, read, parsed, called the hook and returned
C12_Witness ==
    /\ pc = "idle" /\ result.op = "send" /\ result.how = "return"
    /\ Len(log) = 4
    /\ log[1].e = "write" /\ log[2].e = "read" /\ log[3].e = "parse" /\ log[4].e = "hook"

\* C12, the failing write reached: the send raised after its write raised
C12_WitnessWriteFailed ==
    /\ pc = "idle" /\ result.op = "send" /\ result.how = "raise"
    /\ Len(log) = 1 /\ log[1].e = "write" /\ ~log[1].ok

\* -------------------------------------------------------- connect claims
\* C13: every failure of connect, called by the user or by login (TCP
\* failure, TLS handshake failure, hostname mismatch) reaches the caller as
\* EppConnectionError.
C13_ConnectionError ==
    (/\ pc = "idle" /\ result.op \in {"connect", "login"}
     /\ log # <<>> /\ log[1].e = "connect" /\ ~log[1].ok)
        => (result.how = "raise" /\ result.err = "EppConnectionError")

\* ------------------------------------------- batchsend, seen by the caller
\* the whole frames phase 1 has put on the stream
FramesOnStream(docs, pipeline, o) == NFrames(BatchBytes(docs, pipeline, o))

\* which of the situations phase 1 ended in
Situation(docs, pipeline, o) ==
    IF FramesOnStream(docs, pipeline, o) = 0 THEN "nothing sent"
    ELSE IF FramesOnStream(docs, pipeline, o) < Len(docs) THEN "some sent"
    ELSE "all sent"

\* what the caller sees of phase 1: the error raised, the count returned, or
\* the length of the list returned (one slot per document counted as sent)
Visible(docs, readresponse, failfast, pipeline, o) ==
    IF Reraise(WriteFailed(docs, pipeline, o), failfast) THEN << "raise", o.w.err >>
    ELSE IF SkipReads(readresponse) THEN << "count", SentAfter(docs, pipeline, o) >>
    ELSE << "list length", SentAfter(docs, pipeline, o) >>

\* C14: outcome distinguishability of batchsend.  Wherever a batchsend can
\* begin, any two ways its write phase can go for the same documents and
\* flags that differ in the situation (nothing sent, some but not all sent,
\* all sent) differ in what the caller sees; and a call whose frames were all
\* sent and that missed a response returns a list of one slot per document
\* that ends in None.
C14_Distinguish ==
    /\ (pc = "idle" /\ calls < MaxCalls) =>
          \A docs \in DocLists, readresponse, failfast, pipeline \in BOOLEAN :
            \A o1, o2 \in BatchWrites(docs, pipeline) :
              Situation(docs, pipeline, o1) # Situation(docs, pipeline, o2)
                => Visible(docs, readresponse, failfast, pipeline, o1)
                     # Visible(docs, readresponse, failfast, pipeline, o2)
    /\ (/\ pc = "idle" /\ result.op = "batchsend" /\ result.readresponse
        /\ FramesWritten(log) = Len(result.docs)
        /\ \E i \in DOMAIN log : log[i].e = "read" /\ ~log[i].ok)
          => /\ result.how = "return" /\ result.ret = "list"
             /\ Len(result.list) = Len(result.docs)
             /\ result.list[Len(result.list)] = None

\* C14, with failfast true and without pipeline alone
C14_DistinguishFailFast ==
    (pc = "idle" /\ calls < MaxCalls) =>
        \A docs \in DocLists, readresponse \in BOOLEAN :
          \A o1, o2 \in BatchWrites(docs, FALSE) :
            Situation(docs, FALSE, o1) # Situation(docs, FALSE, o2)
              => Visible(docs, readresponse, TRUE, FALSE, o1)
                   # Visible(docs, readresponse, TRUE, FALSE, o2)

\* ------------------------------------------------- connection life cycle
\* C15: with TLS and hostname validation enabled, no byte of a frame is put
\* on a stream whose peer certificate has not passed the hostname check.
C15_NoWriteUnvalidated ==
    (ssl_enable /\ validate_hostname)
        => \A i \in DOMAIN log :
             (log[i].e = "write" /\ log[i].n > 0) => socks[sock].certok

\* C15, the client's state alone: after connect has failed with the hostname
\* mismatch the client holds no stream it could write to.
C15_NoActiveStream ==
    (/\ pc = "idle" /\ result.op \in {"connect", "login"}
     /\ result.how = "raise" /\ result.err = "EppConnectionError")
        => ~SockUsable

\* the client's state equals the one InitLive starts from
LoggedIn ==
    /\ pc = "idle" /\ result.op = "login" /\ result.how = "return"
    /\ sock = 1 /\ rawsock = 1 /\ socks = << NewSock("ok") >>
    /\ greeting = ParseResponse(GreetingPayload)
    /\ inq = <<>> /\ rdoff = 0 /\ outbuf = <<>> /\ ~peerClosed

\* ---------------------------------------------------------------- pairing
\* the read began at a frame boundary and returned exactly the payload of the
\* frame that stood there
WholeRead(ev) ==
    /\ ev.e = "read" /\ ev.ok
    /\ WholeFrame(ev.img) /\ ev.b = PayloadOf(ev.img) /\ ev.n = 0

\* the buffer holds whole frames and nothing else
RECURSIVE AllWhole(_)
AllWhole(b) ==
    \/ b = <<>>
    \/ /\ Len(b) >= 4
       /\ Unpack(Take(b, 4)) >= 4 /\ Unpack(Take(b, 4)) <= Len(b)
       /\ AllWhole(Drop(b, Unpack(Take(b, 4))))

\* no half-written request has reached the peer: what is under way in either
\* direction is whole frames
Aligned == AllWhole(outbuf) /\ \A i \in DOMAIN inq : WholeFrame(inq[i])

\* C16: request/response pairing on one connection whose peer answers every
\* request frame, in order, with a frame of the same bytes.  The frame a send
\* reads whole is the answer to the frame that send wrote, and the frame the
\* i-th read of a batchsend reads whole is the answer to its i-th document,
\* whatever send and batchsend calls came before.
C16_Pairing ==
    Aligned =>
      /\ (pc = "idle" /\ result.op = "send" /\ result.how = "return"
            /\ WholeRead(ReadsOf(log)[1]))
            => /\ ReadsOf(log)[1].img = WritesOf(log)[1].b
               /\ result.resp = ParseResponse(result.docs[1])
      /\ (Cur.op = "batchsend")
            => \A i \in DOMAIN ReadsOf(log) :
                 WholeRead(ReadsOf(log)[i])
                   => ReadsOf(log)[i].img = FrameBytes(Cur.docs[i])

\* ------------------------------------------------- pipelined partial write
\* C17: batchsend with pipeline true and failfast false whose one write
\* raised: the list returned has one slot per whole frame that reached the
\* stream, and the count returned with readresponse false is the number of
\* those frames.
C17_PartialCount ==
    (/\ pc = "idle" /\ result.op = "batchsend" /\ result.pipeline /\ ~result.failfast
     /\ ~WritesOf(log)[1].ok)
        => LET reached == NFrames(Take(WritesOf(log)[1].b, WritesOf(log)[1].n))
           IN  /\ result.how = "return"
               /\ result.readresponse =>
                     (result.ret = "list" /\ Len(result.list) = reached)
               /\ ~result.readresponse =>
                     (result.ret = "count" /\ result.count = reached)

\* ------------------------------------------------------ after the close
\* the connection the client holds has been closed
ConnClosed == sock # 0 /\ sock = rawsock /\ socks[sock].st = "closed"

\* C18: a login that begins on a client whose connection has been closed, by
\* close() or by a read that met the end of the stream, connects first: its
\* first step is connect, and no write or read is tried on the closed stream.
C18_ClosedIsGone ==
    (/\ Cur.op = "login" /\ Cur.hadsock
     /\ ConnClosed /\ Only(log, "close") = <<>>)
        => /\ log # <<>> /\ log[1].e = "connect"
           /\ pc = "idle" => result.err # "socket.error"

\* C18, for send and batchsend: no write is tried on a connection that was
\* closed before the call began.
C18_NoIoOnClosed ==
    (/\ Cur.op \in {"send", "batchsend"}
     /\ ConnClosed /\ Only(log, "close") = <<>>)
        => WritesOf(log) = <<>>

\* C19: the client owns at most one open stream: every socket it has opened,
\* other than the one self.sock now refers to, has been closed.
C19_OneStream ==
    \A i \in DOMAIN socks : i # sock => socks[i].st # "conn"

\* C19, what the client still refers to: self._sock is not an open socket
\* other than self.sock.
C19_NoSecondReference ==
    (rawsock # 0 /\ rawsock # sock) => socks[rawsock].st # "conn"

\* ------------------------------------------------------------ write claims
\* the call makes its writes through write(data)
UsesWrite == Cur.op \in {"send", "login"} \/ (Cur.op = "batchsend" /\ ~Cur.pipeline)

\* the payload handed to the i-th write(data) of the call
PayloadAt(i) ==
    CASE Cur.op = "send" -> Cur.docs[1]
      [] Cur.op = "login" -> << Cur.cred >>
      [] Cur.op = "batchsend" -> Cur.docs[i]

\* C20: every write(payload) makes one underlying write call, whose bytes are
\* 4 + Len(payload) in number: four header bytes that decode, unsigned and
\* big-endian, to 4 + Len(payload), then the payload; on a plain and on a TLS
\* connection alike.  The call delivers all these bytes or raises: a write
\* that raised is the last write of the call, and a send or login ends with
\* its error at once.
C20_WriteFrame ==
    UsesWrite
        => LET W == WritesOf(log)
           IN  /\ Cur.op \in {"send", "login"} => Len(W) <= 1
               /\ Cur.op = "batchsend" => Len(W) <= Len(Cur.docs)
               /\ \A i \in DOMAIN W :
                     /\ Len(W[i].b) = 4 + Len(PayloadAt(i))
                     /\ \A k \in 1..4 : W[i].b[k] \in 0..255
                     /\ W[i].b[1] * 16777216 + W[i].b[2] * 65536 + W[i].b[3] * 256 + W[i].b[4]
                          = 4 + Len(PayloadAt(i))
                     /\ SubSeq(W[i].b, 5, Len(W[i].b)) = PayloadAt(i)
                     /\ W[i].ok => W[i].n = Len(W[i].b)
                     /\ ~W[i].ok =>
                          /\ i = Len(W)
                          /\ Cur.op \in {"send", "login"} =>
                               /\ log[Len(log)] = W[i]
                               /\ pc = "idle" /\ result.how = "raise"
                               /\ result.err = W[i].err

\* C20 witness: a write that delivered its whole frame on a TLS connection
C20_Witness ==
    /\ ssl_enable /\ UsesWrite
    /\ \E i \in DOMAIN log :
         /\ log[i].e = "write" /\ log[i].ok
         /\ Len(log[i].b) > 4 /\ log[i].n = Len(log[i].b)
    /\ Len(outbuf) > 4

\* C20, on a plain connection: a write that delivered its whole frame
C20_WitnessPlain ==
    /\ ~ssl_enable /\ UsesWrite
    /\ \E i \in DOMAIN log :
         /\ log[i].e = "write" /\ log[i].ok
         /\ Len(log[i].b) > 4 /\ log[i].n = Len(log[i].b)
    /\ Len(outbuf) > 4

\* C20, the other outcome: a write that raised after a part of its frame
C20_WitnessRaised ==
    /\ pc = "idle" /\ result.op = "send" /\ result.how = "raise"
    /\ Len(log) = 1 /\ log[1].e = "write" /\ ~log[1].ok
    /\ log[1].n > 0 /\ log[1].n < Len(log[1].b)

=============================================================================
